---- MODULE Spec2Model ----
(***************************************************************************)
(* Model of cmd/extract.go of auger: the store walker (walk), the version  *)
(* resolver (listVersions, getValue, maxInSlice, printValue), the key      *)
(* aggregator (listKeySummaries, getSortedKeySummaries), the presentation  *)
(* layer (printKeySummaries, summarize, templateSummaries, printVersions)  *)
(* and the option dispatch (extractValidateAndRun).                        *)
(*                                                                         *)
(* Byte strings are sequences of small integers.  A physical entry of the  *)
(* bolt "key" bucket is a record; its field valid says whether             *)
(* mvccpb.KeyValue.Unmarshal accepts its bytes.                            *)
(***************************************************************************)
EXTENDS Integers, Sequences, FiniteSets, TLC

\* ------------------------------------------------------------------------
\* Bounds
\* ------------------------------------------------------------------------
MaxRecords == 3

MaxVersion == 1

\* ------------------------------------------------------------------------
\* Input domains
\* ------------------------------------------------------------------------
Versions == (-1) .. MaxVersion

Keys == {<<1>>, <<1, 2>>, <<2>>}

Values == {<<2>>, <<1, 2>>}

Prefixes == {<<>>, <<1>>, <<2>>}

CorruptEntry == [valid |-> FALSE, key |-> <<>>, version |-> 0, value |-> <<>>]

EntriesOver(K, V) ==
  [valid : {TRUE}, key : K, version : Versions, value : V] \cup {CorruptEntry}

Entries == EntriesOver(Keys, Values)

StoresOver(E) == UNION {[1 .. n -> E] : n \in 0 .. MaxRecords}

\* ------------------------------------------------------------------------
\* Library functions used by the code
\* ------------------------------------------------------------------------
\* mvccpb.KeyValue.Unmarshal: a structured record, or an error.
Unmarshal(raw) ==
  [err |-> ~raw.valid,
   kv  |-> [Key |-> raw.key, Version |-> raw.version, Value |-> raw.value]]

\* bytes.HasPrefix
HasPrefixExact(s, p) == s = p

HasPrefix(s, p) == Len(p) <= Len(s) /\ SubSeq(s, 1, Len(p)) = p

\* strings.Compare: byte-wise lexicographic comparison, -1, 0 or 1.
RECURSIVE Compare(_, _)
Compare(a, b) ==
  IF a = <<>> /\ b = <<>> THEN 0
  ELSE IF a = <<>> THEN -1
  ELSE IF b = <<>> THEN 1
  ELSE IF a[1] < b[1] THEN -1
  ELSE IF a[1] > b[1] THEN 1
  ELSE Compare(Tail(a), Tail(b))

JsonMediaType == "json"

\* encoding.DetectAndExtract: a value whose first byte is 1 is recognised
\* (as JSON); any other value is not a known encoding.
DetectAndExtract(in) ==
  IF Len(in) >= 1 /\ in[1] = 1
  THEN [err |-> FALSE, media |-> JsonMediaType, data |-> Tail(in)]
  ELSE [err |-> TRUE, media |-> "", data |-> <<>>]

\* encoding.Convert: the object re-encoded in the target media type.
Convert(inMediaType, outMediaType, in) ==
  [err |-> FALSE, typeMeta |-> <<"TypeMeta">>, out |-> <<outMediaType, in>>]

\* convert (extract.go): detect the encoding, then convert.
convert(outMediaType, in) ==
  LET d == DetectAndExtract(in)
  IN IF d.err
     THEN [err |-> TRUE, typeMeta |-> <<>>, out |-> <<>>]
     ELSE Convert(d.media, outMediaType, d.data)

\* rawJsonUnmarshal: the JSON text as a map, nil (<<>>) when it does not
\* parse; the empty text does not parse.
rawJsonUnmarshal(valJson) ==
  IF Len(valJson) = 2 /\ valJson[1] = JsonMediaType
  THEN <<"map", valJson[2]>>
  ELSE <<>>

\* ------------------------------------------------------------------------
\* Errors: a kind and, when the message names one, a key.
\* ------------------------------------------------------------------------
Err(kind, key) == [kind |-> kind, key |-> key]

NoErr == Err("nil", <<>>)

\* ------------------------------------------------------------------------
\* State
\* ------------------------------------------------------------------------
VARIABLES
  store,     \* the entries of the bolt "key" bucket, in cursor order
  opts,      \* the command-line options (extractOptions)
  op,        \* the operation being executed
  arg,       \* its arguments
  pc,        \* "idle", "open", "iter", "ret" (walk returned), "done"
  fn,        \* the function whose visitor the current walk invokes
  db,        \* number of open store handles
  cursor,    \* index of the entry the bolt cursor is on
  visited,   \* visitor invocations of the current walk
  walks,     \* the walks finished so far: visitor owner, visits, exit path
  walkErr,   \* the error the last walk returned
  m,         \* listKeySummaries: map key -> KeySummary
  versions,  \* listVersions: result
  found,     \* getValue: found
  result,    \* getValue: result
  v,         \* the version looked up by getValue
  ret,       \* what the operation returned
  out        \* what was written to the output

vars == <<store, opts, op, arg, pc, fn, db, cursor, visited, walks, walkErr,
          m, versions, found, result, v, ret, out>>

EmptyMap == [k \in {} |-> 0]

NoArg == [key |-> <<>>, version |-> <<>>, prefix |-> <<>>, fields |-> <<>>,
          raw |-> FALSE, template |-> <<>>, media |-> "yaml"]

\* The flag defaults of init().
DefaultOpts ==
  [out |-> "yaml", key |-> <<>>, version |-> <<>>, keyPrefix |-> <<>>,
   listVersions |-> FALSE, leafItem |-> FALSE, printKey |-> FALSE,
   metaSummary |-> FALSE, raw |-> FALSE, fields |-> <<"key">>,
   template |-> <<>>]

InitWith(S, O) ==
  /\ store \in S
  /\ opts \in O
  /\ op = "none"
  /\ arg = NoArg
  /\ pc = "idle"
  /\ fn = "none"
  /\ db = 0
  /\ cursor = 0
  /\ visited = 0
  /\ walks = <<>>
  /\ walkErr = NoErr
  /\ m = EmptyMap
  /\ versions = <<>>
  /\ found = FALSE
  /\ result = <<>>
  /\ v = 0
  /\ ret = [err |-> NoErr, val |-> <<>>]
  /\ out = <<>>

\* ------------------------------------------------------------------------
\* walk
\* ------------------------------------------------------------------------
\* A function starts a walk with the variables its visitor closes over.
StartWalk(f) ==
  /\ fn' = f
  /\ pc' = "open"
  /\ m' = EmptyMap
  /\ versions' = <<>>
  /\ found' = FALSE
  /\ result' = <<>>

\* defer db.Close(): the handle is released whatever the exit path.
CloseOnExitLeak(h, exit) == IF exit = "stop" THEN h ELSE h - 1

CloseOnExit(h, exit) == h - 1

WalkLog(exit, n) == Append(walks, [fn |-> fn, visited |-> n, exit |-> exit])

\* bolt.Open succeeds.
WalkOpen ==
  /\ pc = "open"
  /\ db' = db + 1
  /\ cursor' = 1
  /\ visited' = 0
  /\ pc' = "iter"
  /\ UNCHANGED <<store, opts, op, arg, fn, walks, walkErr, m, versions,
                 found, result, v, ret, out>>

\* bolt.Open fails (file missing, locked or not a bolt file).
WalkOpenFail ==
  /\ pc = "open"
  /\ walkErr' = Err("OpenError", <<>>)
  /\ visited' = 0
  /\ walks' = WalkLog("open", 0)
  /\ pc' = "ret"
  /\ UNCHANGED <<store, opts, op, arg, fn, db, cursor, m, versions, found,
                 result, v, ret, out>>

\* The visitor of listKeySummaries (the JSON text of the model carries no
\* surrounding white space for strings.TrimSpace to remove).
ListKeySummariesVisitOverwrite(mm, kv, prefix) ==
  IF HasPrefix(kv.Key, prefix)
  THEN IF kv.Key \notin DOMAIN mm
       THEN LET c == convert(JsonMediaType, kv.Value)
                valJson == IF ~c.err THEN c.out ELSE <<>>
                ks == [Key      |-> kv.Key,
                       Version  |-> kv.Version,
                       Stats    |-> [KeySize              |-> Len(kv.Key),
                                     ValueSize            |-> Len(kv.Value),
                                     AllVersionsKeySize   |-> Len(kv.Key),
                                     AllVersionsValueSize |-> Len(kv.Value),
                                     VersionCount         |-> 1],
                       Value    |-> rawJsonUnmarshal(valJson),
                       TypeMeta |-> c.typeMeta]
            IN [k \in DOMAIN mm \cup {kv.Key} |->
                  IF k = kv.Key THEN ks ELSE mm[k]]
       ELSE LET ks == mm[kv.Key]
            IN [mm EXCEPT ![kv.Key] =
                  [ks EXCEPT
                     !.Version = kv.Version,
                     !.Stats = [@ EXCEPT
                        !.ValueSize = Len(kv.Value),
                        !.VersionCount = @ + 1,
                        !.AllVersionsKeySize = @ + Len(kv.Key),
                        !.AllVersionsValueSize = @ + Len(kv.Value)]]]
  ELSE mm

ListKeySummariesVisit(mm, kv, prefix) ==
  IF HasPrefix(kv.Key, prefix)
  THEN IF kv.Key \notin DOMAIN mm
       THEN LET c == convert(JsonMediaType, kv.Value)
                valJson == IF ~c.err THEN c.out ELSE <<>>
                ks == [Key      |-> kv.Key,
                       Version  |-> kv.Version,
                       Stats    |-> [KeySize              |-> Len(kv.Key),
                                     ValueSize            |-> Len(kv.Value),
                                     AllVersionsKeySize   |-> Len(kv.Key),
                                     AllVersionsValueSize |-> Len(kv.Value),
                                     VersionCount         |-> 1],
                       Value    |-> rawJsonUnmarshal(valJson),
                       TypeMeta |-> c.typeMeta]
            IN [k \in DOMAIN mm \cup {kv.Key} |->
                  IF k = kv.Key THEN ks ELSE mm[k]]
       ELSE LET ks == mm[kv.Key]
                newer == kv.Version > ks.Version
            IN [mm EXCEPT ![kv.Key] =
                  [ks EXCEPT
                     !.Version = IF newer THEN kv.Version ELSE @,
                     !.Stats = [@ EXCEPT
                        !.ValueSize = IF newer THEN Len(kv.Value) ELSE @,
                        !.VersionCount = @ + 1,
                        !.AllVersionsKeySize = @ + Len(kv.Key),
                        !.AllVersionsValueSize = @ + Len(kv.Value)]]]
  ELSE mm

\* The visitor of listVersions.
ListVersionsVisit(res, kv, key) ==
  IF kv.Key = key THEN Append(res, kv.Version) ELSE res

\* The visitor of getValue: the match, and whether the walk is done.
GetValueVisitAnyVersion(kv, key, version) == kv.Key = key

GetValueVisit(kv, key, version) == kv.Key = key /\ kv.Version = version

\* The visitor of the current walk applied to kv: the closed-over variables
\* after the call, and the (done, err) it returns.
Visit(kv) ==
  IF fn = "listKeySummaries"
  THEN [m |-> ListKeySummariesVisit(m, kv, arg.prefix), versions |-> versions,
        found |-> found, result |-> result, done |-> FALSE, err |-> FALSE]
  ELSE IF fn = "listVersions"
  THEN [m |-> m, versions |-> ListVersionsVisit(versions, kv, arg.key),
        found |-> found, result |-> result, done |-> FALSE, err |-> FALSE]
  ELSE IF GetValueVisit(kv, arg.key, v)
       THEN [m |-> m, versions |-> versions, found |-> TRUE,
             result |-> kv.Value, done |-> TRUE, err |-> FALSE]
       ELSE [m |-> m, versions |-> versions, found |-> found,
             result |-> result, done |-> FALSE, err |-> FALSE]

\* kv.Unmarshal(v) fails: the walk returns the decoder's error.
WalkDecodeSkip ==
  /\ pc = "iter"
  /\ cursor <= Len(store)
  /\ Unmarshal(store[cursor]).err
  /\ cursor' = cursor + 1
  /\ UNCHANGED <<store, opts, op, arg, pc, fn, db, visited, walks, walkErr, m,
                 versions, found, result, v, ret, out>>

WalkDecodeFail ==
  /\ pc = "iter"
  /\ cursor <= Len(store)
  /\ Unmarshal(store[cursor]).err
  /\ walkErr' = Err("DecodeError", <<>>)
  /\ db' = CloseOnExit(db, "decode")
  /\ walks' = WalkLog("decode", visited)
  /\ pc' = "ret"
  /\ UNCHANGED <<store, opts, op, arg, fn, cursor, visited, m, versions,
                 found, result, v, ret, out>>

\* The entry decodes and the visitor is invoked with it.
WalkVisit ==
  /\ pc = "iter"
  /\ cursor <= Len(store)
  /\ ~Unmarshal(store[cursor]).err
  /\ LET kv == Unmarshal(store[cursor]).kv
         r  == Visit(kv)
     IN /\ m' = r.m
        /\ versions' = r.versions
        /\ found' = r.found
        /\ result' = r.result
        /\ visited' = visited + 1
        /\ IF r.err
           THEN /\ walkErr' = Err("Error handling key", kv.Key)
                /\ db' = CloseOnExit(db, "visitor")
                /\ walks' = WalkLog("visitor", visited + 1)
                /\ pc' = "ret"
                /\ UNCHANGED cursor
           ELSE IF r.done
           THEN /\ walkErr' = NoErr
                /\ db' = CloseOnExit(db, "stop")
                /\ walks' = WalkLog("stop", visited + 1)
                /\ pc' = "ret"
                /\ UNCHANGED cursor
           ELSE /\ cursor' = cursor + 1
                /\ UNCHANGED <<walkErr, db, walks, pc>>
  /\ UNCHANGED <<store, opts, op, arg, fn, v, ret, out>>

\* c.Next() returns a nil key: the loop ends and walk returns nil.
WalkEnd ==
  /\ pc = "iter"
  /\ cursor > Len(store)
  /\ walkErr' = NoErr
  /\ db' = CloseOnExit(db, "complete")
  /\ walks' = WalkLog("complete", visited)
  /\ pc' = "ret"
  /\ UNCHANGED <<store, opts, op, arg, fn, cursor, visited, m, versions,
                 found, result, v, ret, out>>

Walk == WalkOpen \/ WalkOpenFail \/ WalkDecodeFail \/ WalkVisit \/ WalkEnd

\* ------------------------------------------------------------------------
\* getSortedKeySummaries
\* ------------------------------------------------------------------------
\* The less function handed to sort.Slice.
SummaryLessReversed(a, b) == Compare(a.Key, b.Key) >= 0

SummaryLess(a, b) == Compare(a.Key, b.Key) <= 0

Swap(r, i, j) == [r EXCEPT ![i] = r[j], ![j] = r[i]]

\* sort.Slice on a slice of at most 12 elements is an insertion sort:
\*   for i := a+1; i < b; i++ {
\*     for j := i; j > a && less(j, j-1); j-- { swap(j, j-1) } }
RECURSIVE InsertDown(_, _)
InsertDown(r, j) ==
  IF j > 1 /\ SummaryLess(r[j], r[j - 1])
  THEN InsertDown(Swap(r, j, j - 1), j - 1)
  ELSE r

RECURSIVE InsertionSort(_, _)
InsertionSort(r, i) ==
  IF i > Len(r) THEN r ELSE InsertionSort(InsertDown(r, i), i + 1)

\* The orders in which `for _, v := range m` can visit the map.
RangeOrders(S) ==
  {o \in [1 .. Cardinality(S) -> S] :
     \A i, j \in 1 .. Cardinality(S) : i # j => o[i] # o[j]}

getSortedKeySummaries(mm, order) ==
  InsertionSort([i \in 1 .. Len(order) |-> mm[order[i]]], 2)

\* ------------------------------------------------------------------------
\* listKeySummaries
\* ------------------------------------------------------------------------
CallListKeySummaries ==
  /\ pc = "idle"
  /\ \E p \in Prefixes :
       /\ op' = "listKeySummaries"
       /\ arg' = [arg EXCEPT !.prefix = p]
  /\ StartWalk("listKeySummaries")
  /\ UNCHANGED <<store, opts, db, cursor, visited, walks, walkErr, v, ret,
                 out>>

\* What listKeySummaries returns once its walk has returned.
ListKeySummariesResults ==
  IF walkErr # NoErr
  THEN {[err |-> walkErr, val |-> <<>>]}
  ELSE {[err |-> NoErr, val |-> getSortedKeySummaries(m, o)] :
          o \in RangeOrders(DOMAIN m)}

ListKeySummariesReturn ==
  /\ pc = "ret"
  /\ op = "listKeySummaries"
  /\ ret' \in ListKeySummariesResults
  /\ pc' = "done"
  /\ UNCHANGED <<store, opts, op, arg, fn, db, cursor, visited, walks,
                 walkErr, m, versions, found, result, v, out>>

\* ------------------------------------------------------------------------
\* listVersions, getValue, maxInSlice
\* ------------------------------------------------------------------------
\* The stores and arguments of the function-level calls.
FnKeys == {<<1>>, <<1, 2>>}

FnStores == StoresOver(EntriesOver(FnKeys, Values))

FnCallKeys == {<<1, 2>>}

FnVersionArgs == {<<>>, <<"1">>, <<"-", "1">>, <<"x">>}

\* What listVersions returns once its walk has returned.
ListVersionsResult ==
  IF walkErr # NoErr
  THEN [err |-> walkErr, val |-> <<>>]
  ELSE [err |-> NoErr, val |-> versions]

\* What getValue returns once its walk has returned.
GetValueResult ==
  IF walkErr # NoErr
  THEN [err |-> walkErr, val |-> <<>>]
  ELSE IF ~found
  THEN [err |-> Err("key not found", arg.key), val |-> <<>>]
  ELSE [err |-> NoErr, val |-> result]

RECURSIVE MaxFrom(_, _)
MaxFrom(s, r) ==
  IF s = <<>> THEN r
  ELSE MaxFrom(Tail(s), IF Head(s) > r THEN Head(s) ELSE r)

\* maxInSlice: r := int64(0); for each e, if e > r then r = e.
maxInSlice(s) == MaxFrom(s, 0)

CallListVersions ==
  /\ pc = "idle"
  /\ \E k \in FnCallKeys :
       /\ op' = "listVersions"
       /\ arg' = [arg EXCEPT !.key = k]
  /\ StartWalk("listVersions")
  /\ UNCHANGED <<store, opts, db, cursor, visited, walks, walkErr, v, ret,
                 out>>

ListVersionsReturn ==
  /\ pc = "ret"
  /\ op = "listVersions"
  /\ ret' = ListVersionsResult
  /\ pc' = "done"
  /\ UNCHANGED <<store, opts, op, arg, fn, db, cursor, visited, walks,
                 walkErr, m, versions, found, result, v, out>>

CallGetValue ==
  /\ pc = "idle"
  /\ \E k \in FnCallKeys, ver \in Versions :
       /\ op' = "getValue"
       /\ arg' = [arg EXCEPT !.key = k]
       /\ v' = ver
  /\ StartWalk("getValue")
  /\ UNCHANGED <<store, opts, db, cursor, visited, walks, walkErr, ret, out>>

GetValueReturn ==
  /\ pc = "ret"
  /\ op = "getValue"
  /\ ret' = GetValueResult
  /\ pc' = "done"
  /\ UNCHANGED <<store, opts, op, arg, fn, db, cursor, visited, walks,
                 walkErr, m, versions, found, result, v, out>>

\* ------------------------------------------------------------------------
\* printVersions, printValue
\* ------------------------------------------------------------------------
DigitChars == {"0", "1", "2", "3", "4", "5", "6", "7", "8", "9"}

DigitValue(c) ==
  CASE c = "0" -> 0 [] c = "1" -> 1 [] c = "2" -> 2 [] c = "3" -> 3
    [] c = "4" -> 4 [] c = "5" -> 5 [] c = "6" -> 6 [] c = "7" -> 7
    [] c = "8" -> 8 [] c = "9" -> 9

RECURSIVE ParseDigits(_, _)
ParseDigits(s, acc) ==
  IF s = <<>> THEN [err |-> FALSE, val |-> acc]
  ELSE IF Head(s) \notin DigitChars THEN [err |-> TRUE, val |-> 0]
  ELSE ParseDigits(Tail(s), acc * 10 + DigitValue(Head(s)))

\* strconv.ParseInt(s, 10, 64) on the short strings of the model (no string
\* of the model is long enough to leave the int64 range).
ParseInt(s) ==
  IF s = <<>> THEN [err |-> TRUE, val |-> 0]
  ELSE LET signed == Head(s) \in {"+", "-"}
           body == IF signed THEN Tail(s) ELSE s
           r == ParseDigits(body, 0)
       IN IF body = <<>> \/ r.err THEN [err |-> TRUE, val |-> 0]
          ELSE [err |-> FALSE, val |-> IF Head(s) = "-" THEN -r.val ELSE r.val]

\* printValue up to its first walk.
PrintValueStart(key, version, raw, media) ==
  /\ op' = "printValue"
  /\ arg' = [arg EXCEPT !.key = key, !.version = version, !.raw = raw,
                        !.media = media]
  /\ IF version = <<>>
     THEN /\ StartWalk("listVersions")
          /\ UNCHANGED <<v, ret>>
     ELSE LET p == ParseInt(version)
          IN IF p.err
             THEN /\ ret' = [err |-> Err("version must be an int64", <<>>),
                             val |-> <<>>]
                  /\ pc' = "done"
                  /\ UNCHANGED <<fn, m, versions, found, result, v>>
             ELSE /\ v' = p.val
                  /\ StartWalk("getValue")
                  /\ UNCHANGED ret
  /\ UNCHANGED <<store, opts, db, cursor, visited, walks, walkErr, out>>

CallPrintValue ==
  /\ pc = "idle"
  /\ \E k \in FnCallKeys, ver \in FnVersionArgs, raw \in BOOLEAN :
       PrintValueStart(k, ver, raw, "yaml")

\* printValue after listVersions returned: the latest version is looked up.
PrintValueResolve ==
  /\ pc = "ret"
  /\ op = "printValue"
  /\ fn = "listVersions"
  /\ LET r == ListVersionsResult
     IN IF r.err # NoErr
        THEN /\ ret' = r
             /\ pc' = "done"
             /\ UNCHANGED <<fn, m, versions, found, result, v>>
        ELSE IF Len(r.val) = 0
        THEN /\ ret' = [err |-> Err("No versions found for key", arg.key),
                        val |-> <<>>]
             /\ pc' = "done"
             /\ UNCHANGED <<fn, m, versions, found, result, v>>
        ELSE /\ v' = maxInSlice(r.val)
             /\ StartWalk("getValue")
             /\ UNCHANGED ret
  /\ UNCHANGED <<store, opts, op, arg, db, cursor, visited, walks, walkErr,
                 out>>

\* printValue after getValue returned: the value is written.
PrintValueFinish ==
  /\ pc = "ret"
  /\ op = "printValue"
  /\ fn = "getValue"
  /\ LET r == GetValueResult
         c == convert(arg.media, r.val)
     IN IF r.err # NoErr
        THEN ret' = r /\ UNCHANGED out
        ELSE IF Len(r.val) = 0
        THEN /\ ret' = [err |-> Err("0 byte value", <<>>), val |-> <<>>]
             /\ UNCHANGED out
        ELSE IF arg.raw
        THEN /\ out' = Append(out, r.val)
             /\ ret' = [err |-> NoErr, val |-> <<>>]
        ELSE IF c.err
        THEN /\ ret' = [err |-> Err("ConversionError", <<>>), val |-> <<>>]
             /\ UNCHANGED out
        ELSE /\ out' = Append(out, c.out)
             /\ ret' = [err |-> NoErr, val |-> <<>>]
  /\ pc' = "done"
  /\ UNCHANGED <<store, opts, op, arg, fn, db, cursor, visited, walks,
                 walkErr, m, versions, found, result, v>>

PrintVersionsStart(key) ==
  /\ op' = "printVersions"
  /\ arg' = [arg EXCEPT !.key = key]
  /\ StartWalk("listVersions")
  /\ UNCHANGED <<store, opts, db, cursor, visited, walks, walkErr, v, ret,
                 out>>

\* printVersions after listVersions returned: one line per version.
PrintVersionsFinish ==
  /\ pc = "ret"
  /\ op = "printVersions"
  /\ LET r == ListVersionsResult
     IN IF r.err # NoErr
        THEN ret' = r /\ UNCHANGED out
        ELSE /\ out' = out \o [i \in 1 .. Len(r.val) |-> <<r.val[i]>>]
             /\ ret' = [err |-> NoErr, val |-> <<>>]
  /\ pc' = "done"
  /\ UNCHANGED <<store, opts, op, arg, fn, db, cursor, visited, walks,
                 walkErr, m, versions, found, result, v>>

InitFn == InitWith(FnStores, {DefaultOpts})

NextFn ==
  \/ CallListKeySummaries
  \/ CallListVersions
  \/ CallGetValue
  \/ CallPrintValue
  \/ Walk
  \/ ListKeySummariesReturn
  \/ ListVersionsReturn
  \/ GetValueReturn
  \/ PrintValueResolve
  \/ PrintValueFinish

SpecFn == InitFn /\ [][NextFn]_vars

\* ------------------------------------------------------------------------
\* printKeySummaries, KeySummary.summarize
\* ------------------------------------------------------------------------
\* Field names; an option string is a sequence of tokens, "," being the
\* separator.
Key == <<"key">>

ValueSize == <<"value-size">>

AllVersionsValueSize == <<"all-versions-value-size">>

VersionCount == <<"version-count">>

Value == <<"value">>

\* strings.Split(s, ","): the pieces between the separators, at least one.
RECURSIVE SplitFrom(_, _, _)
SplitFrom(s, piece, acc) ==
  IF s = <<>> THEN Append(acc, piece)
  ELSE IF Head(s) = "," THEN SplitFrom(Tail(s), <<>>, Append(acc, piece))
  ELSE SplitFrom(Tail(s), Append(piece, Head(s)), acc)

Split(s) == SplitFrom(s, <<>>, <<>>)

\* rawJsonMarshal: the JSON text of the decoded value, "null" for nil.
rawJsonMarshal(data) ==
  IF data = <<>> THEN <<"null">> ELSE <<JsonMediaType, data[2]>>

\* KeySummary.summarize: the values of the fields, in order, or an error at
\* the first unrecognized field.
RECURSIVE SummarizeFrom(_, _, _, _)
SummarizeFrom(s, fields, i, values) ==
  IF i > Len(fields) THEN [err |-> NoErr, line |-> values]
  ELSE LET field == fields[i]
       IN IF field = Key
          THEN SummarizeFrom(s, fields, i + 1, Append(values, s.Key))
          ELSE IF field = ValueSize
          THEN SummarizeFrom(s, fields, i + 1,
                             Append(values, s.Stats.ValueSize))
          ELSE IF field = AllVersionsValueSize
          THEN SummarizeFrom(s, fields, i + 1,
                             Append(values, s.Stats.AllVersionsValueSize))
          ELSE IF field = VersionCount
          THEN SummarizeFrom(s, fields, i + 1,
                             Append(values, s.Stats.VersionCount))
          ELSE IF field = Value
          THEN SummarizeFrom(s, fields, i + 1,
                             Append(values, rawJsonMarshal(s.Value)))
          ELSE [err |-> Err("unrecognized field", <<>>), line |-> <<>>]

summarize(s, fields) == SummarizeFrom(s, fields, 1, <<>>)

\* The loop of printKeySummaries: one line per summary, until an error.
RECURSIVE PrintSummariesFrom(_, _, _, _)
PrintSummariesFrom(summaries, fields, i, o) ==
  IF i > Len(summaries) THEN [err |-> NoErr, out |-> o]
  ELSE LET r == summarize(summaries[i], fields)
       IN IF r.err # NoErr THEN [err |-> r.err, out |-> o]
          ELSE PrintSummariesFrom(summaries, fields, i + 1,
                                  Append(o, r.line))

\* printKeySummaries up to its walk.
PrintKeySummariesStart(keyPrefix, fields) ==
  /\ op' = "printKeySummaries"
  /\ arg' = [arg EXCEPT !.prefix = keyPrefix, !.fields = fields]
  /\ IF Len(fields) = 0
     THEN /\ ret' = [err |-> Err("no fields provided", <<>>), val |-> <<>>]
          /\ pc' = "done"
          /\ UNCHANGED <<fn, m, versions, found, result>>
     ELSE /\ StartWalk("listKeySummaries")
          /\ UNCHANGED ret
  /\ UNCHANGED <<store, opts, db, cursor, visited, walks, walkErr, v, out>>

\* printKeySummaries after listKeySummaries returned.
PrintKeySummariesFinish ==
  /\ pc = "ret"
  /\ op = "printKeySummaries"
  /\ \E r \in ListKeySummariesResults :
       IF r.err # NoErr
       THEN ret' = r /\ UNCHANGED out
       ELSE LET p == PrintSummariesFrom(r.val, arg.fields, 1, out)
            IN /\ out' = p.out
               /\ ret' = [err |-> p.err, val |-> <<>>]
  /\ pc' = "done"
  /\ UNCHANGED <<store, opts, op, arg, fn, db, cursor, visited, walks,
                 walkErr, m, versions, found, result, v>>

\* ------------------------------------------------------------------------
\* templateSummaries
\* ------------------------------------------------------------------------
\* A template is a sequence of tokens: an action on a field of KeySummary, an
\* unterminated action "{{", or literal text.
TemplateParse(t) == [err |-> \E i \in 1 .. Len(t) : t[i] = "{{"]

\* t.Execute(out, s): the rendering of each token in turn, until one fails;
\* what was rendered before the failure has been written.
RECURSIVE ExecuteFrom(_, _, _, _)
ExecuteFrom(t, s, i, o) ==
  IF i > Len(t) THEN [err |-> FALSE, out |-> o]
  ELSE IF t[i] = "{{.Key}}" THEN ExecuteFrom(t, s, i + 1, Append(o, s.Key))
  ELSE IF t[i] = "{{.Version}}"
  THEN ExecuteFrom(t, s, i + 1, Append(o, s.Version))
  ELSE IF Len(t[i]) >= 2 /\ t[i][1] = "{" THEN [err |-> TRUE, out |-> o]
  ELSE ExecuteFrom(t, s, i + 1, Append(o, t[i]))

\* The loop of templateSummaries: a rendering and a newline per summary.
RECURSIVE TemplateSummariesFrom(_, _, _, _)
TemplateSummariesFrom(summaries, t, i, o) ==
  IF i > Len(summaries) THEN [err |-> NoErr, out |-> o]
  ELSE LET r == ExecuteFrom(t, summaries[i], 1, <<>>)
       IN IF r.err
          THEN [err |-> Err("TemplateError", <<>>), out |-> o \o r.out]
          ELSE TemplateSummariesFrom(summaries, t, i + 1, Append(o, r.out))

\* templateSummaries up to its walk.
TemplateSummariesStart(keyPrefix, templatestr) ==
  /\ op' = "templateSummaries"
  /\ arg' = [arg EXCEPT !.prefix = keyPrefix, !.template = templatestr]
  /\ IF TemplateParse(templatestr).err
     THEN /\ ret' = [err |-> Err("TemplateError", <<>>), val |-> <<>>]
          /\ pc' = "done"
          /\ UNCHANGED <<fn, m, versions, found, result>>
     ELSE IF Len(templatestr) = 0
     THEN /\ ret' = [err |-> Err("no template provided", <<>>), val |-> <<>>]
          /\ pc' = "done"
          /\ UNCHANGED <<fn, m, versions, found, result>>
     ELSE /\ StartWalk("listKeySummaries")
          /\ UNCHANGED ret
  /\ UNCHANGED <<store, opts, db, cursor, visited, walks, walkErr, v, out>>

\* templateSummaries after listKeySummaries returned.
TemplateSummariesFinish ==
  /\ pc = "ret"
  /\ op = "templateSummaries"
  /\ \E r \in ListKeySummariesResults :
       IF r.err # NoErr
       THEN ret' = r /\ UNCHANGED out
       ELSE LET p == TemplateSummariesFrom(r.val, arg.template, 1, out)
            IN /\ out' = p.out
               /\ ret' = [err |-> p.err, val |-> <<>>]
  /\ pc' = "done"
  /\ UNCHANGED <<store, opts, op, arg, fn, db, cursor, visited, walks,
                 walkErr, m, versions, found, result, v>>

\* ------------------------------------------------------------------------
\* extractValidateAndRun
\* ------------------------------------------------------------------------
\* encoding.ToMediaType: json, yaml and proto are the output formats.
ToMediaType(o) ==
  IF o \in {"json", "yaml", "proto"}
  THEN [err |-> FALSE, media |-> o]
  ELSE [err |-> TRUE, media |-> ""]

\* The switch of extractValidateAndRun: the first case that holds.
BranchTemplateFirst(o) ==
  LET hasKey == o.key # <<>>
      hasVersion == o.version # <<>>
      hasKeyPrefix == o.keyPrefix # <<>>
      hasFields == o.fields # Key
      hasTemplate == o.template # <<>>
  IN IF o.leafItem THEN "leafItem"
     ELSE IF hasKey /\ hasKeyPrefix
     THEN "--keys-by-prefix and --key may not be used together"
     ELSE IF hasKey /\ o.listVersions THEN "printVersions"
     ELSE IF hasKey THEN "printValue"
     ELSE IF hasTemplate /\ hasFields
     THEN "--template and --fields may not be used together"
     ELSE IF hasTemplate THEN "templateSummaries"
     ELSE IF ~hasKey /\ o.listVersions
     THEN "--list-versions may only be used with --key"
     ELSE IF ~hasKey /\ hasVersion
     THEN "--version may only be used with --key"
     ELSE "printKeySummaries"

Branch(o) ==
  LET hasKey == o.key # <<>>
      hasVersion == o.version # <<>>
      hasKeyPrefix == o.keyPrefix # <<>>
      hasFields == o.fields # Key
      hasTemplate == o.template # <<>>
  IN IF o.leafItem THEN "leafItem"
     ELSE IF hasKey /\ hasKeyPrefix
     THEN "--keys-by-prefix and --key may not be used together"
     ELSE IF hasKey /\ o.listVersions THEN "printVersions"
     ELSE IF hasKey THEN "printValue"
     ELSE IF ~hasKey /\ o.listVersions
     THEN "--list-versions may only be used with --key"
     ELSE IF ~hasKey /\ hasVersion
     THEN "--version may only be used with --key"
     ELSE IF hasTemplate /\ hasFields
     THEN "--template and --fields may not be used together"
     ELSE IF hasTemplate THEN "templateSummaries"
     ELSE "printKeySummaries"

UsageErrors ==
  {"--keys-by-prefix and --key may not be used together",
   "--list-versions may only be used with --key",
   "--version may only be used with --key",
   "--template and --fields may not be used together"}

\* The options and stores of the command-line runs.
CliEntries ==
  {[valid |-> TRUE, key |-> <<1>>, version |-> 1, value |-> <<1, 2>>],
   CorruptEntry}

CliStores == StoresOver(CliEntries)

CliOpts ==
  [out : {"yaml", "xml"}, key : {<<>>, <<1>>}, version : {<<>>, <<"1">>},
   keyPrefix : {<<>>, <<2>>}, listVersions : BOOLEAN, leafItem : BOOLEAN,
   printKey : BOOLEAN, metaSummary : BOOLEAN, raw : BOOLEAN,
   fields : {Key, <<"key", ",", "version-count", ",", "value-size">>,
             <<"bogus">>, <<"key", ",", "bogus">>},
   template : {<<>>, <<"{{.Key}}">>, <<"{{">>}]

\* What readInput can return: a read error, or the bytes of a leaf item.
LeafInputs ==
  {[err |-> TRUE, raw |-> CorruptEntry]} \cup
  [err : {FALSE},
   raw : {CorruptEntry,
          [valid |-> TRUE, key |-> <<1>>, version |-> 1, value |-> <<1, 2>>],
          [valid |-> TRUE, key |-> <<1>>, version |-> 1, value |-> <<2>>]}]

Return(kind) ==
  /\ ret' = [err |-> Err(kind, <<>>), val |-> <<>>]
  /\ pc' = "done"

\* --output is not a media type.
RunInvalidOutput ==
  /\ ToMediaType(opts.out).err
  /\ op' = "usage"
  /\ Return("invalid --output")
  /\ UNCHANGED <<store, opts, arg, fn, db, cursor, visited, walks, walkErr,
                 m, versions, found, result, v, out>>

\* case opts.leafItem (the revisions and the lease of the item are not
\* modelled).
RunLeafItem ==
  /\ ~ToMediaType(opts.out).err
  /\ Branch(opts) = "leafItem"
  /\ op' = "leafItem"
  /\ \E in \in LeafInputs :
       LET d == Unmarshal(in.raw)
           c == convert(ToMediaType(opts.out).media, d.kv.Value)
       IN IF in.err THEN Return("unable to read input") /\ UNCHANGED out
          ELSE IF d.err
          THEN Return("failed to extract etcd key-value record")
               /\ UNCHANGED out
          ELSE IF opts.metaSummary
          THEN /\ out' = out \o <<<<"Key", d.kv.Key>>,
                                  <<"Version", d.kv.Version>>>>
               /\ Return("nil")
          ELSE IF opts.printKey
          THEN out' = Append(out, d.kv.Key) /\ Return("nil")
          ELSE IF c.err
          THEN Return("ConversionError") /\ UNCHANGED out
          ELSE out' = Append(out, c.out) /\ Return("nil")
  /\ UNCHANGED <<store, opts, arg, fn, db, cursor, visited, walks, walkErr,
                 m, versions, found, result, v>>

\* The cases that return a usage error.
RunUsageError ==
  /\ ~ToMediaType(opts.out).err
  /\ Branch(opts) \in UsageErrors
  /\ op' = "usage"
  /\ Return(Branch(opts))
  /\ UNCHANGED <<store, opts, arg, fn, db, cursor, visited, walks, walkErr,
                 m, versions, found, result, v, out>>

RunPrintVersions ==
  /\ ~ToMediaType(opts.out).err
  /\ Branch(opts) = "printVersions"
  /\ PrintVersionsStart(opts.key)

RunPrintValue ==
  /\ ~ToMediaType(opts.out).err
  /\ Branch(opts) = "printValue"
  /\ PrintValueStart(opts.key, opts.version, opts.raw,
                     ToMediaType(opts.out).media)

RunTemplateSummaries ==
  /\ ~ToMediaType(opts.out).err
  /\ Branch(opts) = "templateSummaries"
  /\ TemplateSummariesStart(opts.keyPrefix, opts.template)

RunPrintKeySummaries ==
  /\ ~ToMediaType(opts.out).err
  /\ Branch(opts) = "printKeySummaries"
  /\ PrintKeySummariesStart(opts.keyPrefix, Split(opts.fields))

extractValidateAndRun ==
  /\ pc = "idle"
  /\ \/ RunInvalidOutput
     \/ RunLeafItem
     \/ RunUsageError
     \/ RunPrintVersions
     \/ RunPrintValue
     \/ RunTemplateSummaries
     \/ RunPrintKeySummaries

InitCli == InitWith(CliStores, CliOpts)

NextCli ==
  \/ extractValidateAndRun
  \/ Walk
  \/ PrintVersionsFinish
  \/ PrintValueResolve
  \/ PrintValueFinish
  \/ TemplateSummariesFinish
  \/ PrintKeySummariesFinish

SpecCli == InitCli /\ [][NextCli]_vars

Init == InitWith(StoresOver(Entries), {DefaultOpts})

Next == CallListKeySummaries \/ Walk \/ ListKeySummariesReturn

Spec == Init /\ [][Next]_vars

\* ------------------------------------------------------------------------
\* Properties of listKeySummaries
\* ------------------------------------------------------------------------
StartsWith(s, p) == Len(p) <= Len(s) /\ \A i \in 1 .. Len(p) : s[i] = p[i]

\* The records of key k the current walk has handed to the visitor.
SeenOf(k) == {i \in 1 .. visited : store[i].valid /\ store[i].key = k}

HighestVersion(idx) ==
  CHOOSE x \in {store[i].version : i \in idx} :
    \A i \in idx : store[i].version <= x

\* The first record in walk order that carries the highest version.
FirstHighest(idx) ==
  CHOOSE i \in idx :
    /\ store[i].version = HighestVersion(idx)
    /\ \A j \in idx : store[j].version = HighestVersion(idx) => i <= j

InListWalk == fn = "listKeySummaries" /\ pc \in {"iter", "ret", "done"}

\* C1: after each visited record, every key matching the prefix has a summary
\* whose VersionCount is the number of its records seen so far, whose Version
\* is the highest version among them, and whose ValueSize is the value length
\* of the (first) record carrying that version; other keys have no summary.
C1_AggregatedStats ==
  InListWalk =>
    \A k \in Keys :
      LET idx == SeenOf(k)
      IN IF idx = {} \/ ~StartsWith(k, arg.prefix)
         THEN k \notin DOMAIN m
         ELSE /\ k \in DOMAIN m
              /\ m[k].Stats.VersionCount = Cardinality(idx)
              /\ m[k].Version = HighestVersion(idx)
              /\ m[k].Stats.ValueSize = Len(store[FirstHighest(idx)].value)

\* Three versions of one key, stored highest first, have been aggregated.
C1_Witness ==
  /\ InListWalk
  /\ pc = "done"
  /\ Len(store) = 3
  /\ \A i \in 1 .. 3 : store[i].valid /\ store[i].key = <<1, 2>>
  /\ store[1].version = 1 /\ store[2].version = -1 /\ store[3].version = 0
  /\ store[1].value # store[3].value
  /\ <<1, 2>> \in DOMAIN m
  /\ m[<<1, 2>>].Stats.VersionCount = 3

\* The structured decoding of a value, as listKeySummaries computes it.
DecodedValue(val) ==
  LET c == convert(JsonMediaType, val)
  IN rawJsonUnmarshal(IF ~c.err THEN c.out ELSE <<>>)

\* C2: after the walk, the decoded value of every summary is the decoding of
\* the value of a highest-version record of its key.
C2_DecodedValueOfLatest ==
  (InListWalk /\ pc \in {"ret", "done"} /\ walkErr = NoErr) =>
    \A k \in DOMAIN m :
      \E i \in SeenOf(k) :
        /\ store[i].version = HighestVersion(SeenOf(k))
        /\ m[k].Value = DecodedValue(store[i].value)

StoreKeys == {store[i].key : i \in {j \in 1 .. Len(store) : store[j].valid}}

StoreOpened == walks # <<>> /\ walks[1].exit # "open"

\* C3: with the empty prefix the result is strictly ascending by byte-wise key
\* comparison and holds only keys of the store; when the walk succeeds every
\* key of the store appears exactly once; an empty store gives an empty
\* sequence and no error.
C3_SortedNoDuplicates ==
  (op = "listKeySummaries" /\ pc = "done" /\ arg.prefix = <<>>) =>
    LET r == ret.val
    IN /\ \A i \in 1 .. Len(r) - 1 : Compare(r[i].Key, r[i + 1].Key) < 0
       /\ \A i \in 1 .. Len(r) : r[i].Key \in StoreKeys
       /\ ret.err = NoErr =>
            /\ {r[i].Key : i \in 1 .. Len(r)} = StoreKeys
            /\ Len(r) = Cardinality(StoreKeys)
       /\ (store = <<>> /\ StoreOpened) => (ret.err = NoErr /\ r = <<>>)

\* Three distinct keys stored in descending order have been listed.
C3_Witness ==
  /\ op = "listKeySummaries" /\ pc = "done" /\ arg.prefix = <<>>
  /\ ret.err = NoErr
  /\ Len(store) = 3
  /\ store[1].key = <<2>> /\ store[2].key = <<1, 2>> /\ store[3].key = <<1>>
  /\ Len(ret.val) = 3

\* The map an aggregation of the whole store with the empty prefix builds.
RECURSIVE UnfilteredMap(_, _)
UnfilteredMap(i, mm) ==
  IF i > Len(store) THEN mm
  ELSE UnfilteredMap(i + 1,
         ListKeySummariesVisit(mm, Unmarshal(store[i]).kv, <<>>))

Unfiltered ==
  LET mm == UnfilteredMap(1, EmptyMap)
  IN {getSortedKeySummaries(mm, o) : o \in RangeOrders(DOMAIN mm)}

FilterByPrefix(r, p) == SelectSeq(r, LAMBDA s : StartsWith(s.Key, p))

\* C4: a successful listing with prefix p is the unfiltered listing restricted
\* to the keys that start with p, in the same order and with the same
\* summaries.
C4_PrefixIsFilter ==
  (op = "listKeySummaries" /\ pc = "done" /\ ret.err = NoErr) =>
    \A u \in Unfiltered : ret.val = FilterByPrefix(u, arg.prefix)

\* A listing with prefix <<1>> of a store that also holds key <<2>>.
C4_Witness ==
  /\ op = "listKeySummaries" /\ pc = "done" /\ ret.err = NoErr
  /\ arg.prefix = <<1>>
  /\ StoreKeys = Keys
  /\ Len(ret.val) = 2

\* ------------------------------------------------------------------------
\* Properties of walk, listVersions, getValue and printValue
\* ------------------------------------------------------------------------
AllValid == \A i \in 1 .. Len(store) : store[i].valid

\* The records of the requested key.
KeyIdx == {i \in 1 .. Len(store) : store[i].valid /\ store[i].key = arg.key}

\* The records a walk reaches: those with no undecodable entry before them.
Reached == {i \in 1 .. Len(store) : \A j \in 1 .. i : store[j].valid}

\* The reached records whose key and version are the requested ones.
MatchIdx == {i \in KeyIdx \cap Reached : store[i].version = v}

MinOf(S) == CHOOSE i \in S : \A j \in S : i <= j

LastWalk == walks[Len(walks)]

\* C5: getValue returns the value of the first record in walk order whose key
\* and version both match and visits no record after it; it fails with "key
\* not found" exactly when the walk visited every record without a match; so
\* it succeeds for every version that listVersions returns for the key.
C5_GetValueFirstMatch ==
  (op = "getValue" /\ pc = "done" /\ StoreOpened) =>
    /\ MatchIdx # {} =>
         /\ ret = [err |-> NoErr, val |-> store[MinOf(MatchIdx)].value]
         /\ LastWalk.visited = MinOf(MatchIdx)
         /\ LastWalk.exit = "stop"
    /\ ret.err.kind = "key not found" <=> (MatchIdx = {} /\ AllValid)
    /\ ret.err.kind = "key not found" =>
         (LastWalk.visited = Len(store) /\ LastWalk.exit = "complete")
    /\ (AllValid /\ \E i \in KeyIdx : store[i].version = v) => ret.err = NoErr

\* getValue stopped at the first of two records with the same key and version
\* and different values.
C5_Witness ==
  /\ op = "getValue" /\ pc = "done" /\ ret.err = NoErr
  /\ Cardinality(MatchIdx) = 2
  /\ \E i, j \in MatchIdx : store[i].value # store[j].value
  /\ LastWalk.visited < Len(store)

\* C6: with no explicit version, printValue looks up the numeric maximum of
\* the versions recorded for the key; when the key has no record it fails
\* with a not-found error and writes nothing.
C6_LatestIsMaximum ==
  (op = "printValue" /\ arg.version = <<>>) =>
    /\ fn = "getValue" => v = HighestVersion(KeyIdx)
    /\ (pc = "done" /\ KeyIdx = {} /\ walks[1].exit = "complete") =>
         (ret.err = Err("No versions found for key", arg.key) /\ out = <<>>)

FirstCorrupt == MinOf({i \in 1 .. Len(store) + 1 : i \notin Reached})

DecodeAborted == walks # <<>> /\ LastWalk.exit = "decode"

\* C9 as stated: a decode failure surfaces as the wrapped error that names
\* the key.
C9_DecodeErrorNamesKey ==
  (pc \in {"ret", "done"} /\ DecodeAborted) =>
    walkErr.kind = "Error handling key"

\* C9: a walk never goes past an entry that fails to decode: it stops there
\* without invoking the visitor for that entry and returns the decoder's own
\* error, which names no key; the calling operation returns that error and
\* no result.
C9_DecodeErrorAborts ==
  /\ pc = "iter" => (cursor <= FirstCorrupt /\ visited < FirstCorrupt)
  /\ DecodeAborted =>
       /\ walkErr = Err("DecodeError", <<>>)
       /\ LastWalk.visited = FirstCorrupt - 1
       /\ cursor = FirstCorrupt
       /\ db = 0
       /\ pc = "done" => (ret = [err |-> walkErr, val |-> <<>>] /\ out = <<>>)

\* An operation returned after its walk met an undecodable entry that follows
\* a decodable one.
C9_Witness ==
  /\ pc = "done" /\ DecodeAborted
  /\ FirstCorrupt = 2
  /\ Len(store) = 3
  /\ op = "getValue"

ValueRequestDone == op = "printValue" /\ arg.version = <<>> /\ pc = "done"

\* C10 as stated (on a store that opens and decodes): a value request with no
\* explicit version always performs exactly two walks, the first one
\* visiting every record.
C10_ExactlyTwoWalks ==
  (ValueRequestDone /\ \A i \in 1 .. Len(walks) :
                         walks[i].exit \in {"complete", "stop"}) =>
    /\ Len(walks) = 2
    /\ walks[1].fn = "listVersions" /\ walks[1].visited = Len(store)
    /\ walks[2].fn = "getValue"

\* C10: at most one handle is open, and only while a walk iterates: it is
\* released on every exit path.  A value request with no explicit version
\* starts with a listVersions walk, which visits every record when it
\* completes; a second, getValue, walk follows exactly when the first
\* completed and found a version of the key; otherwise the first walk is the
\* only one.
C10_HandleReleased ==
  /\ db \in {0, 1}
  /\ db = 1 <=> pc = "iter"
  /\ ValueRequestDone =>
       /\ walks[1].fn = "listVersions"
       /\ walks[1].exit = "complete" => walks[1].visited = Len(store)
       /\ IF walks[1].exit = "complete" /\ KeyIdx # {}
          THEN Len(walks) = 2 /\ walks[2].fn = "getValue"
          ELSE Len(walks) = 1

\* A value request with no explicit version finished after two walks, the
\* second of which stopped early at the match.
C10_Witness ==
  /\ ValueRequestDone
  /\ Len(walks) = 2
  /\ walks[2].exit = "stop"
  /\ walks[2].visited < Len(store)
  /\ db = 0

\* ------------------------------------------------------------------------
\* Properties of extractValidateAndRun and printKeySummaries
\* ------------------------------------------------------------------------
IsUsageError(e) == e.kind \in UsageErrors \cup {"invalid --output"}

NoStoreNoOutput == walks = <<>> /\ db = 0 /\ out = <<>> /\ fn = "none"

ListVersionsWithVersion ==
  pc # "idle" /\ opts.listVersions /\ opts.version # <<>>

\* C7 as stated (leaf-item mode set aside): --list-versions with a non-empty
\* --version is a usage error whatever the other options, --key included.
C7_AlwaysRejected ==
  (ListVersionsWithVersion /\ ~opts.leafItem) =>
    (pc = "done" /\ IsUsageError(ret.err) /\ NoStoreNoOutput)

\* C7: --list-versions with a non-empty --version is rejected with a usage
\* error, no store opened and nothing written, when --key is empty and
\* --leaf-item is not set, whatever the remaining options and the store; with
\* --key set, no --keys-by-prefix, no --leaf-item and a valid --output the
\* version is ignored and the versions of the key are listed.
C7_RejectedWithoutKey ==
  (ListVersionsWithVersion /\ ~opts.leafItem) =>
    IF opts.key = <<>>
    THEN pc = "done" /\ IsUsageError(ret.err) /\ NoStoreNoOutput
    ELSE (opts.keyPrefix = <<>> /\ ~ToMediaType(opts.out).err) =>
           (op = "printVersions" /\ ~IsUsageError(ret.err))

\* --list-versions and --version without --key, with a template and a valid
\* output format, on a store that holds a record: rejected.
C7_Witness ==
  /\ ListVersionsWithVersion /\ ~opts.leafItem
  /\ opts.key = <<>>
  /\ opts.template = <<"{{.Key}}">> /\ opts.fields = Key
  /\ opts.out = "yaml"
  /\ Len(store) > 0 /\ store[1].valid
  /\ pc = "done"
  /\ ret.err.kind = "--list-versions may only be used with --key"

HasUnknownField(fields) ==
  \E i \in 1 .. Len(fields) :
    fields[i] \notin {Key, ValueSize, AllVersionsValueSize, VersionCount,
                      Value}

\* C8: on every store that is walked without error, a field-projection
\* listing whose field list holds an unrecognized name fails with the
\* unknown-field error and writes nothing.
C8_UnknownFieldFails ==
  (/\ op = "printKeySummaries" /\ pc = "done"
   /\ HasUnknownField(arg.fields)
   /\ LastWalk.exit = "complete") =>
    (ret.err.kind = "unrecognized field" /\ out = <<>>)

====
